---- MODULE Spec2Model ----
(***************************************************************************)
(* Model of the per-device supervisor of imonitor: the Coverage Set        *)
(* (imonitor-lib/src/device/activity_coverage/mod.rs), the Crash Harvester *)
(* (imonitor-lib/src/services/crashes/client.rs), the Heartbeat Maintainer *)
(* and its Readiness Signal (imonitor-lib/src/services/heartbeat/client.rs)*)
(* the Trace Streamer and Archive Backfiller                               *)
(* (imonitor-lib/src/services/os_trace/client.rs), and Device::monitor,    *)
(* which spawns and joins the tasks (imonitor-lib/src/device/mod.rs).      *)
(*                                                                         *)
(* Time is counted in ticks; Sub ticks make one second, so that an instant *)
(* has a whole-second part (t \div Sub) and a sub-second part (t % Sub).   *)
(***************************************************************************)
EXTENDS Integers, Sequences, FiniteSets, TLC

\* ------------------------------------------------------------------------
\* Bounds
\* ------------------------------------------------------------------------
\* Largest instant (in ticks) an interval endpoint takes.
MaxT == 7
\* Number of write_crashes passes the harvester makes in a behaviour.
MaxPolls == 3
\* Number of times the process is killed and started again.
MaxKills == 1

\* Number of trace sessions (start_trace that succeeded) in a behaviour.
MaxSessions == 2

\* Ticks per second: SystemTime has sub-second resolution.
Sub == 2

\* ------------------------------------------------------------------------
\* State
\* ------------------------------------------------------------------------
VARIABLES
    covered,        \* ActivityCoverage.covered: BTreeSet<TimeRange>, as the
                    \* sequence of its elements in iteration (Ord) order
    cov_file,       \* the file activity_coverage.json
    crash_files,    \* Device.crashes.crash_files (in memory)
    crash_dirs,     \* Device.crashes.crash_dirs (in memory)
    disk_files,     \* the file known_crashes.json
    disk_dirs,      \* the file known_dirs.json
    pc,             \* position of the get_crashes task
    files,          \* write_crashes: local `files` (the candidates)
    ls_result,      \* write_crashes: what ls returned for each known
                    \* directory in this pass (the locals `files_in_dir`)
    files_to_get,   \* write_crashes: local `files_to_get`
    visited,        \* write_crashes: elements of files_to_get iterated so far
    files_give_up,  \* write_crashes: local `files_give_up`
    cur,            \* write_crashes: loop variable `file` (NoPath between
                    \* two iterations)
    slept,          \* get_crashes: seconds slept after the last connect
                    \* attempt or write_crashes call
    polls,          \* number of write_crashes passes started
    kills,          \* number of kill/restart cycles
    downloaded,     \* history: paths pulled and written by this process run
    persisted,      \* history: paths of downloaded whose persist completed
    prev_downloaded,\* history: paths downloaded by earlier process runs
    prev_persisted, \* history: paths persisted by earlier process runs
    found_dirs,     \* history: paths this run found to be directories
    gave_up,        \* history: paths put in files_give_up since the
                    \* current crash-service session was connected
    ready,          \* the value of the watch channel hb_connected
    hb_pc,          \* position of the maintain_heartbeat task
    hb_event,       \* history: the last step maintain_heartbeat took
    now,            \* the clock SystemTime::now() reads, in ticks
    tr_pc,          \* position of the stream_os_trace_logs task
    rx_unseen,      \* stream_os_trace_logs: its receiver hb_connected_rx
                    \* has not seen the latest version of the channel
    hb_rx_unseen,   \* write_log: the same for the clone hb_rx
    interval_start, \* stream_os_trace_logs: local `interval_start`
    interval_end,   \* stream_os_trace_logs: local `interval_end`
    tr_cov,         \* stream_os_trace_logs: local `coverage` (the clone)
    sessions,       \* number of trace sessions started
    merges,         \* history: number of merges the Trace Streamer made
    last_call,      \* history: the instant of the last call of write_log
    tr_end,         \* history: how the current trace session ended
    drops,          \* history: true -> false transitions of ready since
                    \* the trace session started
    drop_time,      \* history: the instant of the last such transition
    ar_pc,          \* position of the create_os_trace_archive task
    ar_gaps,        \* create_os_trace_archive: the gaps still to iterate
    ar_cov,         \* create_os_trace_archive: local `coverage` (the clone)
    ar_slept,       \* create_os_trace_archive: seconds of its last sleep
    tr_slept,       \* stream_os_trace_logs: seconds slept in the current
                    \* iteration of the outer loop
    ar_req,         \* history: the start_time, in epoch seconds, of the
                    \* last create_archive request
    mon,            \* what Device::monitor has returned: "running" while
                    \* try_join! is pending, else the task whose error it
                    \* returned
    first_failed    \* history: the first task that ended with an error

covVars   == <<covered, cov_file>>
crashVars == <<crash_files, crash_dirs, disk_files, disk_dirs, pc, files,
               ls_result, files_to_get, visited, files_give_up, cur, slept, polls, kills,
               downloaded, persisted, prev_downloaded, prev_persisted,
               found_dirs, gave_up>>
hbVars    == <<ready, hb_pc, hb_event>>
trLocals  == <<tr_pc, interval_start, interval_end, tr_cov, sessions, merges,
               last_call, tr_end, tr_slept>>
trVars    == <<trLocals, rx_unseen, hb_rx_unseen, drops, drop_time>>
arVars    == <<ar_pc, ar_gaps, ar_cov, ar_slept, ar_req>>
monVars   == <<mon, first_failed>>
supVars   == <<hbVars, now, trVars, arVars, monVars>>
vars      == <<covered, cov_file, crash_files, crash_dirs, disk_files,
               disk_dirs, pc, files, ls_result, files_to_get, visited,
               files_give_up, cur, slept, polls, kills, downloaded, persisted,
               prev_downloaded, prev_persisted, found_dirs, gave_up, supVars>>

\* A file on disk: st is "absent", "torn" (created, hence truncated to empty,
\* and not written yet) or "ok"; data is the content when st = "ok".
NoFile(empty)    == [st |-> "absent", data |-> empty]
TornFile(empty)  == [st |-> "torn", data |-> empty]
OkFile(content)  == [st |-> "ok", data |-> content]

\* No path: the value of `file` outside the download loop.
NoPath == << >>

\* ------------------------------------------------------------------------
\* Coverage Set: activity_coverage/mod.rs
\* ------------------------------------------------------------------------
\* A TimeRange is <<start, end>>.
Instants  == 0..MaxT
\* The half-open intervals [s, e) with s < e.
Intervals == {r \in Instants \X Instants : r[1] < r[2]}

Min(a, b) == IF a <= b THEN a ELSE b
Max(a, b) == IF a >= b THEN a ELSE b

\* impl Ord for TimeRange: ranges compare by start only.
TimeRangeCmpEq(a, b) == a[1] = b[1]
TimeRangeCmpLt(a, b) == a[1] < b[1]

\* BTreeSet::remove(&r): drops the element that compares equal to r.
BTreeRemove(set, r) == SelectSeq(set, LAMBDA x : ~TimeRangeCmpEq(x, r))

\* BTreeSet::insert(r): keeps the elements in Ord order; when an element
\* comparing equal to r is already there the set is left as it is.
BTreeInsert(set, r) ==
    IF \E i \in 1..Len(set) : TimeRangeCmpEq(set[i], r)
    THEN set
    ELSE LET lower == SelectSeq(set, LAMBDA x : TimeRangeCmpLt(x, r))
             upper == SelectSeq(set, LAMBDA x : TimeRangeCmpLt(r, x))
         IN  lower \o <<r>> \o upper

\* ActivityCoverage::new
EmptyCoverage == << >>

\* MergeLoop with strict comparisons: ranges that only touch are not merged.
RECURSIVE MergeLoopNoTouch(_, _, _, _, _)
MergeLoopNoTouch(set, i, new_start, new_end, to_remove) ==
    IF i > Len(set)
    THEN <<new_start, new_end, to_remove>>
    ELSE LET existing == set[i] IN
         IF new_end <= existing[1] \/ new_start >= existing[2]
         THEN MergeLoopNoTouch(set, i + 1, new_start, new_end, to_remove)
         ELSE MergeLoopNoTouch(set, i + 1, Min(new_start, existing[1]),
                               Max(new_end, existing[2]),
                               Append(to_remove, existing))

\* add_range, first loop: walks the set in order from element i with the
\* running new_start, new_end and to_remove; yields <<new_start, new_end,
\* to_remove>>.
RECURSIVE MergeLoop(_, _, _, _, _)
MergeLoop(set, i, new_start, new_end, to_remove) ==
    IF i > Len(set)
    THEN <<new_start, new_end, to_remove>>
    ELSE LET existing == set[i] IN
         IF new_end < existing[1] \/ new_start > existing[2]
         THEN MergeLoop(set, i + 1, new_start, new_end, to_remove)
         ELSE MergeLoop(set, i + 1, Min(new_start, existing[1]),
                        Max(new_end, existing[2]), Append(to_remove, existing))

\* RemoveAll that removes only the last range of to_remove.
RemoveLastOnly(set, to_remove) ==
    IF to_remove = << >>
    THEN set
    ELSE BTreeRemove(set, to_remove[Len(to_remove)])

\* add_range, second loop: removes every range of to_remove.
RECURSIVE RemoveAll(_, _)
RemoveAll(set, to_remove) ==
    IF to_remove = << >>
    THEN set
    ELSE RemoveAll(BTreeRemove(set, Head(to_remove)), Tail(to_remove))

\* add_range that keeps the end of the new range instead of the maximum end.
add_range_keep_end(set, new_range) ==
    LET m == MergeLoop(set, 1, new_range[1], new_range[2], << >>)
    IN  BTreeInsert(RemoveAll(set, m[3]), <<m[1], new_range[2]>>)

\* add_range that does not remove the merged ranges before inserting.
add_range_no_remove(set, new_range) ==
    LET m == MergeLoop(set, 1, new_range[1], new_range[2], << >>)
    IN  BTreeInsert(set, <<m[1], m[2]>>)

add_range(set, new_range) ==
    LET m == MergeLoop(set, 1, new_range[1], new_range[2], << >>)
    IN  BTreeInsert(RemoveAll(set, m[3]), <<m[1], m[2]>>)

\* GapLoop that emits a gap when start >= cursor.
RECURSIVE GapLoopGe(_, _, _, _)
GapLoopGe(set, i, cursor, result) ==
    IF i > Len(set)
    THEN <<cursor, result>>
    ELSE LET r == set[i] IN
         GapLoopGe(set, i + 1, Max(cursor, r[2]),
                   IF r[1] >= cursor THEN Append(result, <<cursor, r[1]>>)
                                     ELSE result)

\* missing_ranges, the loop: walks the set from element i with the running
\* cursor and result; yields <<cursor, result>>.
RECURSIVE GapLoop(_, _, _, _)
GapLoop(set, i, cursor, result) ==
    IF i > Len(set)
    THEN <<cursor, result>>
    ELSE LET r == set[i] IN
         GapLoop(set, i + 1, Max(cursor, r[2]),
                 IF r[1] > cursor THEN Append(result, <<cursor, r[1]>>)
                                  ELSE result)

\* missing_ranges that returns the oldest gap only.
missing_ranges_oldest(set) ==
    IF set = << >>
    THEN << >>
    ELSE LET g == GapLoop(set, 1, set[1][1], << >>)
         IN  IF g[2] = << >> THEN << >> ELSE <<Head(g[2])>>

missing_ranges(set) ==
    IF set = << >>
    THEN << >>
    ELSE LET last_range == set[Len(set)]
             g == GapLoop(set, 1, set[1][1], << >>)
         IN  IF g[1] < last_range[2]
             THEN Append(g[2], <<g[1], last_range[2]>>)
             ELSE g[2]

\* to_rfc3339: chrono prints the whole seconds and, when it is not zero, the
\* fractional part; the text is modelled by the two fields it carries.
to_rfc3339(t) == [secs |-> t \div Sub, frac |-> t % Sub]

\* from_rfc3339: UNIX_EPOCH + Duration::from_secs(dt.timestamp()).
from_rfc3339(s) == s.secs * Sub

\* impl Serialize for TimeRange / TimeRange::to_rfc3339_range
SerializeRange(r) == <<to_rfc3339(r[1]), to_rfc3339(r[2])>>

\* impl Deserialize for TimeRange / TimeRange::from_rfc3339_range
DeserializeRange(p) == <<from_rfc3339(p[1]), from_rfc3339(p[2])>>

\* serde_json::to_string_pretty(&ActivityCoverage): the elements in order.
Serialize(set) == [i \in 1..Len(set) |-> SerializeRange(set[i])]

\* serde_json::from_str::<ActivityCoverage>: the BTreeSet is rebuilt by
\* inserting the elements one after the other.
RECURSIVE DeserializeFrom(_, _)
DeserializeFrom(text, acc) ==
    IF text = << >>
    THEN acc
    ELSE DeserializeFrom(Tail(text),
                         BTreeInsert(acc, DeserializeRange(Head(text))))

Deserialize(text) == DeserializeFrom(text, EmptyCoverage)

\* load_from_fs: a missing file gives the default (empty) coverage; a file
\* without content is not valid JSON and gives an error.
load_from_fs(file) ==
    IF file.st = "absent" THEN [ok |-> TRUE, value |-> EmptyCoverage]
    ELSE IF file.st = "torn" THEN [ok |-> FALSE, value |-> EmptyCoverage]
    ELSE [ok |-> TRUE, value |-> Deserialize(file.data)]

\* ------------------------------------------------------------------------
\* Crash Harvester: initial state (Device::new, Crashes::new)
\* ------------------------------------------------------------------------
\* The task of a process that has just started.
CrashTaskInit ==
    /\ crash_files = {}
    /\ crash_dirs = {}
    /\ pc = "start"
    /\ files = {}
    /\ ls_result = << >>
    /\ files_to_get = {}
    /\ visited = {}
    /\ files_give_up = {}
    /\ cur = NoPath
    /\ slept = 0
    /\ polls = 0
    /\ kills = 0
    /\ downloaded = {}
    /\ persisted = {}
    /\ prev_downloaded = {}
    /\ prev_persisted = {}
    /\ found_dirs = {}
    /\ gave_up = {}

\* The first run of the program: no known-set file exists.
CrashInit ==
    /\ CrashTaskInit
    /\ disk_files = NoFile({})
    /\ disk_dirs = NoFile({})

\* ------------------------------------------------------------------------
\* Specification SpecCov: add_range applied to the empty Coverage Set
\* ------------------------------------------------------------------------
CovInit ==
    /\ covered = EmptyCoverage
    /\ cov_file = NoFile(<< >>)

\* activity_coverage.add_range(new_range)
AddRange(new_range) ==
    /\ covered' = add_range(covered, new_range)
    /\ UNCHANGED cov_file
    /\ UNCHANGED crashVars
    /\ UNCHANGED supVars

\* Device::monitor: watch::channel(false); no task has run yet.
TaskInit ==
    /\ ready = FALSE
    /\ hb_pc = "select"
    /\ hb_event = "none"
    /\ ar_pc = "top"
    /\ ar_gaps = << >>
    /\ ar_cov = << >>
    /\ ar_slept = 0
    /\ ar_req = 0
    /\ mon = "running"
    /\ first_failed = "none"
    /\ tr_slept = 0
    /\ tr_pc = "wait"
    /\ rx_unseen = FALSE
    /\ hb_rx_unseen = FALSE
    /\ interval_start = 0
    /\ interval_end = 0
    /\ tr_cov = << >>
    /\ sessions = 0
    /\ merges = 0
    /\ last_call = 0
    /\ tr_end = "none"
    /\ drops = 0
    /\ drop_time = 0

\* The supervisor at the start of the process, the clock at 0.
SupInit == TaskInit /\ now = 0

\* The supervisor state of a process that has just started.
SupReset ==
    /\ ready' = FALSE
    /\ hb_pc' = "select"
    /\ hb_event' = "none"
    /\ tr_pc' = "wait"
    /\ rx_unseen' = FALSE
    /\ hb_rx_unseen' = FALSE
    /\ interval_start' = 0
    /\ interval_end' = 0
    /\ tr_cov' = << >>
    /\ tr_end' = "none"
    /\ drops' = 0
    /\ ar_pc' = "top"
    /\ ar_gaps' = << >>
    /\ ar_cov' = << >>
    /\ ar_slept' = 0
    /\ tr_slept' = 0
    /\ mon' = "running"
    /\ first_failed' = "none"
    /\ UNCHANGED <<now, sessions, merges, last_call, drop_time, ar_req>>

InitCov == CovInit /\ CrashInit /\ SupInit
NextCov == \E r \in Intervals : AddRange(r)
SpecCov == InitCov /\ [][NextCov]_vars

\* ------------------------------------------------------------------------
\* Properties of the Coverage Set
\* ------------------------------------------------------------------------
Elems(seq) == {seq[i] : i \in 1..Len(seq)}

\* The unit cells [t, t+1) a set of ranges covers.
CellsOf(r) == {t \in Instants : r[1] <= t /\ t < r[2]}
Cells(set) == UNION {CellsOf(r) : r \in Elems(set)}

Normalized(set) ==
    \A i, j \in 1..Len(set) :
        i < j => /\ set[i][1] < set[j][1]
                 /\ set[i][2] < set[j][1]

\* C1: after any sequence of add_range operations from the empty Coverage
\* Set the stored intervals are pairwise non-overlapping, non-touching and
\* ordered by start.
C1_Normalized == Normalized(covered)

\* Three intervals are stored, the first two as close as non-touching allows.
C1_Witness ==
    /\ Len(covered) >= 3
    /\ covered[1][2] + 1 = covered[2][1]

\* The stored ranges that overlap or touch r.
Hit(set, r) == {x \in Elems(set) : ~(r[2] < x[1] \/ r[1] > x[2])}

SetMin(S) == CHOOSE x \in S : \A y \in S : x <= y
SetMax(S) == CHOOSE x \in S : \A y \in S : x >= y

\* C2: add_range computes the set union: the cells covered afterwards are
\* those covered before plus those of [s, e); the ranges that overlap or
\* touch [s, e) are replaced by one range from the minimum start to the
\* maximum end and the others are left unchanged.
C2_Union ==
    /\ \A r \in Intervals :
          LET after == add_range(covered, r)
              hit   == Hit(covered, r)
              lo    == SetMin({r[1]} \cup {x[1] : x \in hit})
              hi    == SetMax({r[2]} \cup {x[2] : x \in hit})
          IN  /\ Cells(after) = Cells(covered) \cup CellsOf(r)
              /\ Elems(after) = (Elems(covered) \ hit) \cup {<<lo, hi>>}
              /\ Len(after) = Cardinality(Elems(after))
    /\ add_range(add_range(add_range(EmptyCoverage, <<10, 20>>), <<30, 40>>),
                 <<19, 31>>) = << <<10, 40>> >>

\* Some interval bridges two stored ranges and leaves a third one alone.
C2_Witness ==
    \E r \in Intervals :
        /\ Cardinality(Hit(covered, r)) = 2
        /\ Elems(covered) \ Hit(covered, r) # {}
        /\ \E x \in Hit(covered, r) : r[2] > x[2]

\* C3: add_range is commutative.
C3_Commutative ==
    \A a, b \in Intervals :
        add_range(add_range(covered, a), b) = add_range(add_range(covered, b), a)

\* Two stored ranges, and two different intervals with the same start of
\* which one reaches both stored ranges.
C3_Witness ==
    /\ Len(covered) >= 2
    /\ \E a, b \in Intervals :
          /\ a[1] = b[1] /\ a[2] < b[2]
          /\ Cardinality(Hit(covered, b)) = 2
          /\ Cardinality(Hit(covered, a)) = 1

\* C4: add_range is idempotent.
C4_Idempotent ==
    \A a \in Intervals :
        add_range(add_range(covered, a), a) = add_range(covered, a)

\* Some interval strictly contains two stored ranges.
C4_Witness ==
    \E a \in Intervals :
        /\ Cardinality(Hit(covered, a)) = 2
        /\ \A x \in Hit(covered, a) : a[1] < x[1] /\ x[2] < a[2]

\* The maximal intervals between the earliest start and the latest end that
\* are disjoint from every stored range.
MaxGaps(set) ==
    IF set = << >> THEN {}
    ELSE LET lo == SetMin({x[1] : x \in Elems(set)})
             hi == SetMax({x[2] : x \in Elems(set)})
         IN  {g \in Intervals :
                 /\ lo <= g[1] /\ g[2] <= hi
                 /\ CellsOf(g) \cap Cells(set) = {}
                 /\ g[1] - 1 \in Cells(set)
                 /\ g[2] \in Cells(set)}

RECURSIVE AddAll(_, _)
AddAll(set, ranges) ==
    IF ranges = << >> THEN set
    ELSE AddAll(add_range(set, Head(ranges)), Tail(ranges))

\* C6: adding every interval of missing_ranges() back into a non-empty set
\* yields the single interval [min_start, max_end).
C6_GapsFill ==
    covered # << >> =>
        AddAll(covered, missing_ranges(covered)) =
            << <<SetMin({x[1] : x \in Elems(covered)}),
                 SetMax({x[2] : x \in Elems(covered)})>> >>

\* Two gaps of different lengths are added back.
C6_Witness ==
    LET g == missing_ranges(covered) IN
    /\ Len(g) = 2
    /\ g[1][2] - g[1][1] # g[2][2] - g[2][1]

\* ------------------------------------------------------------------------
\* Specification SpecPersist: the Coverage Set saved and loaded again
\* ------------------------------------------------------------------------
\* ActivityCoverage::write_to_fs
WriteToFs ==
    /\ cov_file' = OkFile(Serialize(covered))
    /\ UNCHANGED covered
    /\ UNCHANGED crashVars
    /\ UNCHANGED supVars

\* Device::load_activity_coverage at the start of a process
LoadFromFs ==
    /\ load_from_fs(cov_file).ok
    /\ covered' = load_from_fs(cov_file).value
    /\ UNCHANGED cov_file
    /\ UNCHANGED crashVars
    /\ UNCHANGED supVars

\* ActivityCoverage::write_to_fs: File::create has truncated the file and
\* write_all or flush fails, or the process is killed before them; the
\* file is left empty.
WriteToFsTorn ==
    /\ cov_file' = TornFile(<< >>)
    /\ UNCHANGED covered
    /\ UNCHANGED crashVars
    /\ UNCHANGED supVars

\* main: load_activity_coverage returns Err at the start of a process; the
\* error is printed and the loop goes to the next device: this device is
\* not monitored.
LoadFromFsErr ==
    /\ ~load_from_fs(cov_file).ok
    /\ mon' = "skipped"
    /\ UNCHANGED <<covVars, crashVars, hbVars, now, trVars, arVars,
                   first_failed>>

NextPersist ==
    \/ \E r \in Intervals : AddRange(r)
    \/ WriteToFs
    \/ WriteToFsTorn
    \/ LoadFromFs
    \/ LoadFromFsErr
SpecPersist == InitCov /\ [][NextPersist]_vars

\* C7: persistence round trip: deserializing the serialized form of a
\* Coverage Set whose endpoints are arbitrary instants, sub-second parts
\* included, yields an equal Coverage Set.
C7_RoundTrip == Deserialize(Serialize(covered)) = covered

\* ------------------------------------------------------------------------
\* Device::monitor: the four spawned tasks
\* ------------------------------------------------------------------------
\* A spawned task returns Err: it is the first one to end so, or a later one.
Fails(task) ==
    first_failed' = IF first_failed = "none" THEN task ELSE first_failed

\* The receivers of the watch channel are owned by the three collector
\* tasks (rx and its two clones) and dropped when their task returns:
\* hb_connected_tx.send fails when every collector has returned.
NoReceivers == pc = "failed" /\ tr_pc = "failed" /\ ar_pc = "failed"

\* The sender is owned by the heartbeat task and dropped when it ends: the
\* channel is then closed for the receivers.
Closed == hb_pc = "failed"

\* wait_for(|val| *val) on a closed channel returns Err unless the stored
\* value is true.
WaitForErr(val) == Closed /\ ~val

\* ------------------------------------------------------------------------
\* Heartbeat Maintainer: services/heartbeat/client.rs
\* ------------------------------------------------------------------------
\* hb_connected_tx.send(v): the value is stored and every receiver is
\* notified, whether or not v differs from the stored value.
\* A wait on the channel that returns whatever the value is.
WaitForAny(val) == TRUE

\* hb_connected_rx.wait_for(|val| *val) returns when the value is true.
WaitFor(val) == val

Publish(v) ==
    /\ ready' = v
    /\ rx_unseen' = TRUE
    /\ hb_rx_unseen' = (tr_pc \in {"changed", "wait_true"})
    /\ IF ready /\ ~v /\ tr_pc \in {"loop", "changed", "wait_true"}
       THEN drops' = Min(drops + 1, 2) /\ drop_time' = now
       ELSE UNCHANGED <<drops, drop_time>>

\* maintain_heartbeat, select!: connect_heartbeat returns Ok, before the
\* 7 s timer fires or during the 420 s window; true is published and the
\* marco/polo loop is entered.
HbConnectOk ==
    /\ hb_pc \in {"select", "optimistic"}
    /\ ~NoReceivers
    /\ Publish(TRUE)
    /\ hb_pc' = "connected"
    /\ hb_event' = "connect_ok"
    /\ UNCHANGED <<crashVars, covVars, now, trLocals, arVars, monVars>>

\* maintain_heartbeat, select!: connect_heartbeat returns Err; false is
\* published, the task sleeps RETRY_CONNECT_WAIT_SECS and starts over.
HbConnectErr ==
    /\ hb_pc \in {"select", "optimistic"}
    /\ ~NoReceivers
    /\ Publish(FALSE)
    /\ hb_pc' = "select"
    /\ hb_event' = "connect_err"
    /\ UNCHANGED <<crashVars, covVars, now, trLocals, arVars, monVars>>

\* maintain_heartbeat, select!, second branch: HEARTBEAT_TIMEOUT_SEC pass
\* with connect_heartbeat pending; true is published and the
\* HEARTBEAT_NO_RESPONSE_CONSIDER_ALIVE_SEC sleep starts.
HbSoftTimeout ==
    /\ hb_pc = "select"
    /\ ~NoReceivers
    /\ Publish(TRUE)
    /\ hb_pc' = "optimistic"
    /\ hb_event' = "soft_timeout"
    /\ UNCHANGED <<crashVars, covVars, now, trLocals, arVars, monVars>>

\* maintain_heartbeat, select!, second branch: the 420 s sleep ends with
\* connect_heartbeat still pending; the branch returns Ok(()), the pending
\* connect is dropped and the loop starts over. Nothing is published.
HbWindowElapsed ==
    /\ hb_pc = "optimistic"
    /\ hb_pc' = "select"
    /\ hb_event' = "window_elapsed"
    /\ UNCHANGED <<ready, crashVars, covVars, now, trVars, arVars, monVars>>

\* marco/polo loop: get_marco returns Ok and send_polo returns Ok.
HbExchange ==
    /\ hb_pc = "connected"
    /\ hb_pc' = "connected"
    /\ hb_event' = "exchange"
    /\ UNCHANGED <<ready, crashVars, covVars, now, trVars, arVars, monVars>>

\* marco/polo loop: get_marco returns Ok and send_polo returns Err; the
\* error is logged, reconnect stays false and the loop goes on with the
\* next get_marco. Nothing is published.
HbPoloErr ==
    /\ hb_pc = "connected"
    /\ hb_pc' = "connected"
    /\ hb_event' = "polo_err"
    /\ UNCHANGED <<ready, crashVars, covVars, now, trVars, arVars, monVars>>

\* marco/polo loop: get_marco returns Err; false is published, the loop is
\* left, the task sleeps RETRY_CONNECT_WAIT_SECS and starts over.
HbMarcoErr ==
    /\ hb_pc = "connected"
    /\ ~NoReceivers
    /\ Publish(FALSE)
    /\ hb_pc' = "select"
    /\ hb_event' = "marco_err"
    /\ UNCHANGED <<crashVars, covVars, now, trLocals, arVars, monVars>>

\* select!, first branch, or marco/polo loop: hb_connected_tx.send returns
\* Err after connect_heartbeat returned (Ok or Err) or get_marco returned
\* Err; maintain_heartbeat returns HeartbeatError::SendConnectedState.
HbSendFatal ==
    /\ hb_pc \in {"select", "optimistic", "connected"}
    /\ NoReceivers
    /\ hb_pc' = "failed"
    /\ hb_event' = "send_fatal"
    /\ Fails("hb")
    /\ UNCHANGED <<ready, crashVars, covVars, now, trVars, arVars, mon>>

\* select!, second branch: hb_connected_tx.send returns Err after
\* HEARTBEAT_TIMEOUT_SEC; the async block ends with the error, the arm logs
\* it, sleeps RETRY_CONNECT_WAIT_SECS and the loop starts over.
HbSoftTimeoutSendErr ==
    /\ hb_pc = "select"
    /\ NoReceivers
    /\ hb_pc' = "select"
    /\ hb_event' = "soft_timeout_send_err"
    /\ UNCHANGED <<ready, crashVars, covVars, now, trVars, arVars, monVars>>

\* The heartbeat task panics: its JoinHandle yields a JoinError, the case
\* flatten maps to an error, and the sender it owns is dropped. (An Err
\* returned by maintain_heartbeat needs a channel without receivers.)
HbJoinError ==
    /\ hb_pc # "failed"
    /\ hb_pc' = "failed"
    /\ hb_event' = "panic"
    /\ Fails("hb")
    /\ UNCHANGED <<ready, crashVars, covVars, now, trVars, arVars, mon>>

\* One step of maintain_heartbeat.
HbStep ==
    \/ HbConnectOk
    \/ HbConnectErr
    \/ HbSoftTimeout
    \/ HbWindowElapsed
    \/ HbExchange
    \/ HbPoloErr
    \/ HbMarcoErr
    \/ HbSendFatal
    \/ HbSoftTimeoutSendErr
    \/ HbJoinError

\* ------------------------------------------------------------------------
\* Device::monitor: try_join! over the JoinHandles
\* ------------------------------------------------------------------------
\* The tasks whose JoinHandle try_join! polls and that have ended with an
\* error; flatten(os_trace_archive) is commented out.
JoinedFailed ==
    {t \in {"hb", "crashes", "os_trace_log"} :
        \/ t = "hb" /\ hb_pc = "failed"
        \/ t = "crashes" /\ pc = "failed"
        \/ t = "os_trace_log" /\ tr_pc = "failed"}

\* try_join! completes with the error of a joined task that has ended;
\* monitor returns it. The JoinHandles are dropped, which detaches the
\* tasks still running.
MonitorReturn ==
    /\ mon = "running"
    /\ \E t \in JoinedFailed : mon' = t
    /\ UNCHANGED <<crashVars, covVars, hbVars, now, trVars, arVars,
                   first_failed>>

\* ------------------------------------------------------------------------
\* Clock
\* ------------------------------------------------------------------------
\* Time passes.
Tick ==
    /\ now < MaxT
    /\ now' = now + 1
    /\ UNCHANGED <<crashVars, covVars, hbVars, trVars, arVars, monVars>>

\* ------------------------------------------------------------------------
\* Trace Streamer: services/os_trace/client.rs, stream_os_trace_logs
\* ------------------------------------------------------------------------
TRACE_RETRY_CONNECT_WAIT_SECS == 5

\* The end of the merged range taken when write_log returns.
IntervalEndAtReturn(at_call, at_return) == at_return

\* The end of the merged range: the value interval_end got at the top of the
\* last iteration of the loop, before write_log was called.
IntervalEnd(at_call, at_return) == at_call

trHistory == <<merges, last_call, tr_end, drops, drop_time>>
trOthers  == <<crashVars, hbVars, now, arVars, monVars>>

\* outer loop: hb_connected_rx.wait_for(|val| *val) returns; the receiver
\* has seen the current version; the connect to the trace service starts.
TrWaitReady ==
    /\ tr_pc = "wait"
    /\ WaitFor(ready)
    /\ rx_unseen' = FALSE
    /\ tr_slept' = 0
    /\ tr_pc' = "connecting"
    /\ UNCHANGED <<hb_rx_unseen, interval_start, interval_end, tr_cov,
                   sessions, trHistory, covVars, trOthers>>

\* outer loop: hb_connected_rx.wait_for(|val| *val) returns Err, the
\* channel being closed; the task sleeps RETRY_CONNECT_WAIT_SECS and
\* starts over.
TrWaitClosed ==
    /\ tr_pc = "wait"
    /\ WaitForErr(ready)
    /\ tr_slept' = TRACE_RETRY_CONNECT_WAIT_SECS
    /\ UNCHANGED <<tr_pc, rx_unseen, hb_rx_unseen, interval_start,
                   interval_end, tr_cov, sessions, trHistory, covVars,
                   trOthers>>

\* outer loop: the connect fails or exceeds the 2 s cap; the task sleeps
\* RETRY_CONNECT_WAIT_SECS and waits for readiness again.
TrConnectFail ==
    /\ tr_pc = "connecting"
    /\ tr_slept' = TRACE_RETRY_CONNECT_WAIT_SECS
    /\ tr_pc' = "wait"
    /\ UNCHANGED <<rx_unseen, hb_rx_unseen, interval_start, interval_end,
                   tr_cov, sessions, trHistory, covVars, trOthers>>

\* outer loop: the connect succeeds and start_trace fails; the error is
\* logged and the task waits for readiness again, without a sleep.
TrStartTraceFail ==
    /\ tr_pc = "connecting"
    /\ tr_pc' = "wait"
    /\ UNCHANGED <<rx_unseen, hb_rx_unseen, interval_start, interval_end,
                   tr_cov, sessions, trHistory, tr_slept, covVars, trOthers>>

\* outer loop: the connect and start_trace succeed:
\* interval_start = SystemTime::now().
TrConnectOk ==
    /\ tr_pc = "connecting"
    /\ sessions < MaxSessions
    /\ sessions' = sessions + 1
    /\ interval_start' = now
    /\ interval_end' = now
    /\ tr_end' = "none"
    /\ drops' = 0
    /\ tr_pc' = "loop"
    /\ UNCHANGED <<rx_unseen, hb_rx_unseen, tr_cov, merges, last_call,
                   drop_time, tr_slept, covVars, trOthers>>

\* inner loop: interval_end = SystemTime::now(), then write_log is called:
\* it clones the receiver and selects between the restart composite and
\* client.next().
TrWriteLogCall ==
    /\ tr_pc = "loop"
    /\ interval_end' = now
    /\ last_call' = now
    /\ hb_rx_unseen' = rx_unseen
    /\ tr_pc' = "changed"
    /\ UNCHANGED <<rx_unseen, interval_start, tr_cov, sessions, merges,
                   tr_end, drops, drop_time, tr_slept, covVars, trOthers>>

\* write_log: client.next() yields a record, which is written; write_log
\* returns Ok(false) and the loop goes on.
TrLog ==
    /\ tr_pc \in {"changed", "wait_true"}
    /\ hb_rx_unseen' = FALSE
    /\ tr_pc' = "loop"
    /\ UNCHANGED <<rx_unseen, interval_start, interval_end, tr_cov, sessions,
                   trHistory, tr_slept, covVars, trOthers>>

\* write_log: client.next() yields an error (OsTraceError::Connect); the
\* task sleeps RETRY_CONNECT_WAIT_SECS and leaves the loop.
TrLogErr ==
    /\ tr_pc \in {"changed", "wait_true"}
    /\ hb_rx_unseen' = FALSE
    /\ tr_end' = "error"
    /\ tr_slept' = TRACE_RETRY_CONNECT_WAIT_SECS
    /\ tr_pc' = "merge"
    /\ UNCHANGED <<rx_unseen, interval_start, interval_end, tr_cov, sessions,
                   merges, last_call, drops, drop_time, covVars, trOthers>>

\* write_log: the record cannot be serialised or written; the error is
\* returned by stream_os_trace_logs.
TrWriteLogFatal ==
    /\ tr_pc \in {"changed", "wait_true"}
    /\ hb_rx_unseen' = FALSE
    /\ tr_end' = "fatal"
    /\ tr_pc' = "failed"
    /\ Fails("os_trace_log")
    /\ UNCHANGED <<rx_unseen, interval_start, interval_end, tr_cov, sessions,
                   merges, last_call, drops, drop_time, tr_slept, covVars,
                   crashVars, hbVars, now, arVars, mon>>

\* write_log, restart composite: the channel is closed and hb_rx.changed()
\* (no unseen version) or hb_rx.wait_for (value false) returns Err;
\* write_log returns OsTraceError::HeartbeatWatch, which
\* stream_os_trace_logs returns.
TrWriteLogClosed ==
    /\ Closed
    /\ \/ tr_pc = "changed" /\ ~hb_rx_unseen
       \/ tr_pc = "wait_true" /\ ~ready
    /\ hb_rx_unseen' = FALSE
    /\ tr_end' = "heartbeat_watch"
    /\ tr_pc' = "failed"
    /\ Fails("os_trace_log")
    /\ UNCHANGED <<rx_unseen, interval_start, interval_end, tr_cov, sessions,
                   merges, last_call, drops, drop_time, tr_slept, covVars,
                   crashVars, hbVars, now, arVars, mon>>

\* Variant of TrChanged in which changed() is awaited on the streamer's own
\* receiver, whose version it marks as seen.
TrChangedOwnReceiver ==
    /\ tr_pc = "changed"
    /\ hb_rx_unseen
    /\ hb_rx_unseen' = FALSE
    /\ rx_unseen' = FALSE
    /\ tr_pc' = "wait_true"
    /\ UNCHANGED <<interval_start, interval_end, tr_cov, sessions,
                   trHistory, tr_slept, covVars, trOthers>>

\* write_log, restart composite: hb_rx.changed() completes, the clone having
\* an unseen version.
TrChanged ==
    /\ tr_pc = "changed"
    /\ hb_rx_unseen
    /\ hb_rx_unseen' = FALSE
    /\ tr_pc' = "wait_true"
    /\ UNCHANGED <<rx_unseen, interval_start, interval_end, tr_cov, sessions,
                   trHistory, tr_slept, covVars, trOthers>>

\* write_log, restart composite: hb_rx.wait_for(|val| *val) completes;
\* write_log returns Ok(true), the task sleeps RETRY_CONNECT_WAIT_SECS and
\* leaves the loop.
TrNewHeartbeat ==
    /\ tr_pc = "wait_true"
    /\ WaitFor(ready)
    /\ hb_rx_unseen' = FALSE
    /\ tr_end' = "new_heartbeat"
    /\ tr_slept' = TRACE_RETRY_CONNECT_WAIT_SECS
    /\ tr_pc' = "merge"
    /\ UNCHANGED <<rx_unseen, interval_start, interval_end, tr_cov, sessions,
                   merges, last_call, drops, drop_time, covVars, trOthers>>

\* after the loop: add_range(interval_start..interval_end) under the write
\* lock, and the clone of the Coverage Set.
TrMerge ==
    /\ tr_pc = "merge"
    /\ covered' = add_range(covered,
                            <<interval_start, IntervalEnd(interval_end, now)>>)
    /\ tr_cov' = covered'
    /\ merges' = merges + 1
    /\ tr_pc' = "persist"
    /\ UNCHANGED <<cov_file, rx_unseen, hb_rx_unseen, interval_start,
                   interval_end, sessions, last_call, tr_end, drops,
                   drop_time, tr_slept, trOthers>>

\* after the loop: coverage.write_to_fs succeeds; the outer loop starts over.
TrPersistOk ==
    /\ tr_pc = "persist"
    /\ cov_file' = OkFile(Serialize(tr_cov))
    /\ tr_cov' = << >>
    /\ tr_pc' = "wait"
    /\ UNCHANGED <<covered, rx_unseen, hb_rx_unseen, interval_start,
                   interval_end, sessions, trHistory, tr_slept, trOthers>>

\* after the loop: coverage.write_to_fs fails; the error is returned by
\* stream_os_trace_logs.
TrPersistFail ==
    /\ tr_pc = "persist"
    /\ tr_cov' = << >>
    /\ tr_pc' = "failed"
    /\ Fails("os_trace_log")
    /\ UNCHANGED <<covVars, rx_unseen, hb_rx_unseen, interval_start,
                   interval_end, sessions, trHistory, tr_slept, crashVars,
                   hbVars, now, arVars, mon>>

\* One step of stream_os_trace_logs.
TrStep ==
    \/ TrWaitReady
    \/ TrConnectFail
    \/ TrStartTraceFail
    \/ TrConnectOk
    \/ TrWriteLogCall
    \/ TrLog
    \/ TrLogErr
    \/ TrWriteLogFatal
    \/ TrChanged
    \/ TrNewHeartbeat
    \/ TrMerge
    \/ TrPersistOk
    \/ TrPersistFail

\* ------------------------------------------------------------------------
\* Archive Backfiller: services/os_trace/client.rs, create_os_trace_archive
\* ------------------------------------------------------------------------
ARCHIVE_RETRY_CONNECT_WAIT_SECS == 5
ARCHIVE_WAIT_SECS == 60

arOthers == <<crashVars, hbVars, now, trVars, monVars>>

\* loop top: gaps = missing_ranges() under the read lock; with no gap the
\* task sleeps RETRY_CONNECT_WAIT_SECS and starts over.
ArReadGaps ==
    /\ ar_pc = "top"
    /\ ar_gaps' = missing_ranges(covered)
    /\ ar_pc' = IF missing_ranges(covered) = << >> THEN "top" ELSE "wait"
    /\ ar_slept' = IF missing_ranges(covered) = << >>
                   THEN ARCHIVE_RETRY_CONNECT_WAIT_SECS ELSE 0
    /\ UNCHANGED <<ar_cov, covVars, ar_req, arOthers>>

\* The start_time of a request taken from the end of the gap.
ArchiveStartOfEnd(gap) == gap[2] \div Sub

\* archive_start = gap.start.duration_since(UNIX_EPOCH).as_secs()
ArchiveStart(gap) == gap[1] \div Sub

\* hb_connected_rx.wait_for(|val| *val) returns Err, the channel being
\* closed; the task sleeps RETRY_CONNECT_WAIT_SECS and starts over.
ArWaitClosed ==
    /\ ar_pc = "wait"
    /\ WaitForErr(ready)
    /\ ar_gaps' = << >>
    /\ ar_slept' = ARCHIVE_RETRY_CONNECT_WAIT_SECS
    /\ ar_pc' = "top"
    /\ UNCHANGED <<ar_cov, covVars, ar_req, arOthers>>

\* hb_connected_rx.wait_for(|val| *val) returns; the connect to the trace
\* service starts.
ArWaitReady ==
    /\ ar_pc = "wait"
    /\ WaitFor(ready)
    /\ ar_pc' = "connecting"
    /\ UNCHANGED <<ar_gaps, ar_cov, ar_slept, covVars, ar_req, arOthers>>

\* the connect fails or exceeds the 2 s cap; the task sleeps
\* RETRY_CONNECT_WAIT_SECS and starts over.
ArConnectFail ==
    /\ ar_pc = "connecting"
    /\ ar_gaps' = << >>
    /\ ar_slept' = ARCHIVE_RETRY_CONNECT_WAIT_SECS
    /\ ar_pc' = "top"
    /\ UNCHANGED <<ar_cov, covVars, ar_req, arOthers>>

\* the connect succeeds; the loop over the gaps is entered.
ArConnectOk ==
    /\ ar_pc = "connecting"
    /\ ar_pc' = "gaps"
    /\ UNCHANGED <<ar_gaps, ar_cov, ar_slept, covVars, ar_req, arOthers>>

\* gap loop: the archive file is opened and create_archive is called for
\* the next gap.
ArCreateCall ==
    /\ ar_pc = "gaps"
    /\ ar_gaps # << >>
    /\ ar_req' = ArchiveStart(Head(ar_gaps))
    /\ ar_pc' = "archiving"
    /\ UNCHANGED <<ar_gaps, ar_cov, ar_slept, covVars, arOthers>>

\* Variant of ArCreateErr in which the gap of the failed request is merged
\* into the Coverage Set.
ArCreateErrMerge ==
    /\ ar_pc = "archiving"
    /\ covered' = add_range(covered, Head(ar_gaps))
    /\ ar_gaps' = Tail(ar_gaps)
    /\ ar_slept' = ARCHIVE_WAIT_SECS
    /\ ar_pc' = "gaps"
    /\ UNCHANGED <<ar_cov, cov_file, ar_req, arOthers>>

\* gap loop: create_archive fails; the task sleeps 60 s and goes on with
\* the next gap.
ArCreateErr ==
    /\ ar_pc = "archiving"
    /\ ar_gaps' = Tail(ar_gaps)
    /\ ar_slept' = ARCHIVE_WAIT_SECS
    /\ ar_pc' = "gaps"
    /\ UNCHANGED <<ar_cov, covVars, ar_req, arOthers>>

\* gap loop: create_archive succeeds; add_range(gap) under the write lock,
\* and the clone of the Coverage Set.
ArCreateOk ==
    /\ ar_pc = "archiving"
    /\ covered' = add_range(covered, Head(ar_gaps))
    /\ ar_cov' = covered'
    /\ ar_gaps' = Tail(ar_gaps)
    /\ ar_pc' = "persist"
    /\ UNCHANGED <<cov_file, ar_slept, ar_req, arOthers>>

\* gap loop: coverage.write_to_fs succeeds.
ArPersistOk ==
    /\ ar_pc = "persist"
    /\ cov_file' = OkFile(Serialize(ar_cov))
    /\ ar_cov' = << >>
    /\ ar_pc' = "gaps"
    /\ UNCHANGED <<covered, ar_gaps, ar_slept, ar_req, arOthers>>

\* gap loop: coverage.write_to_fs fails; the error is returned by
\* create_os_trace_archive.
ArPersistFail ==
    /\ ar_pc = "persist"
    /\ ar_cov' = << >>
    /\ ar_gaps' = << >>
    /\ ar_pc' = "failed"
    /\ Fails("os_trace_archive")
    /\ UNCHANGED <<covVars, ar_slept, ar_req, crashVars, hbVars, now, trVars,
                   mon>>

\* the gaps are exhausted; the task sleeps 60 s and starts over.
ArLoopDone ==
    /\ ar_pc = "gaps"
    /\ ar_gaps = << >>
    /\ ar_slept' = ARCHIVE_WAIT_SECS
    /\ ar_pc' = "top"
    /\ UNCHANGED <<ar_gaps, ar_cov, covVars, ar_req, arOthers>>

\* One step of create_os_trace_archive.
ArStep ==
    \/ ArReadGaps
    \/ ArWaitReady
    \/ ArConnectFail
    \/ ArConnectOk
    \/ ArCreateCall
    \/ ArCreateErr
    \/ ArCreateOk
    \/ ArPersistOk
    \/ ArPersistFail
    \/ ArLoopDone

\* ------------------------------------------------------------------------
\* Specification SpecTrace: the heartbeat and the Trace Streamer, with time
\* ------------------------------------------------------------------------
NextTrace ==
    \/ Tick
    \/ HbConnectOk
    \/ HbConnectErr
    \/ HbSoftTimeout
    \/ HbWindowElapsed
    \/ HbExchange
    \/ HbMarcoErr
    \/ TrWaitReady
    \/ TrConnectFail
    \/ TrStartTraceFail
    \/ TrConnectOk
    \/ TrWriteLogCall
    \/ TrLog
    \/ TrLogErr
    \/ TrWriteLogFatal
    \/ TrChanged
    \/ TrNewHeartbeat
    \/ TrMerge
    \/ TrPersistOk
    \/ TrPersistFail

SpecTrace == InitCov /\ [][NextTrace]_vars

\* ------------------------------------------------------------------------
\* Crash Harvester: services/crashes/client.rs
\* ------------------------------------------------------------------------
RETRY_CONNECT_WAIT_SECS == 15
POLL_WAIT_SECS == 15

\* Entry names ls(None) returns for the root.
RootNames == {"a.ips", "Retired", "IN_PROGRESS_sysdiagnose_x"}
\* Entry names ls(dir) returns for a directory.
SubNames == {"b.ips", "IN_PROGRESS_sysdiagnose_x"}
\* Entry names the crash service returns.
Names == RootNames \cup SubNames
\* Remote paths are sequences of names; ls(None) lists the root.
RootPaths == {<<n>> : n \in RootNames}
\* The paths the remote may report as directories (S_IFDIR).
DirPaths == {<<"Retired">>}
\* Path::new(&dir).join(file)
join(dir, file) == Append(dir, file)
Paths == RootPaths \cup {join(d, n) : d \in DirPaths, n \in SubNames}

\* The entries of a listed directory that write_crashes keeps.
KeepEntry(file) ==
    ~(file = "." \/ file = ".." \/ file = "IN_PROGRESS_sysdiagnose_x")

\* The candidates without the entries of the known directories.
CandidatesRootOnly(root, sub) == root

\* write_crashes, listing: the entries of the root as ls(None) returned
\* them and, for every listed directory d, the entries ls(d) returned that
\* are kept, each joined to d.
Candidates(root, sub) ==
    root \cup UNION {{join(d, n) : n \in {m \in sub[d] : KeepEntry(m)}} :
                     d \in DOMAIN sub}

\* files_to_get computed without the difference with crash_files.
FilesToGetIgnoreFiles(fs, cfiles, cdirs) == fs \ cdirs

\* files_to_get computed without the difference with crash_dirs.
FilesToGetIgnoreDirs(fs, cfiles, cdirs) == fs \ cfiles

\* files.difference(&crash_files).difference(&crash_dirs)
FilesToGet(fs, cfiles, cdirs) == (fs \ cfiles) \ cdirs

\* update_known_crashes writing its argument instead of crash_files.
KnownCrashesContentArg(cfiles, arg) == arg

\* update_known_crashes(_files): the content written to known_crashes.json
\* is the in-memory crash_files; the argument is not used.
KnownCrashesContent(cfiles, arg) == cfiles

\* The locals of write_crashes outside a pass.
NoPass ==
    /\ files' = {}
    /\ ls_result' = << >>
    /\ files_to_get' = {}
    /\ visited' = {}
    /\ files_give_up' = {}
    /\ cur' = NoPath

Past    == <<downloaded, persisted, prev_downloaded, prev_persisted,
             found_dirs>>
History == <<Past, gave_up>>
Disk    == <<disk_files, disk_dirs>>
Locals  == <<files, ls_result, files_to_get, visited, files_give_up, cur>>

\* get_known_crashes_from_fs: each file that exists seeds its set; a file
\* that is not valid JSON makes get_crashes return the error.
LoadKnown ==
    /\ pc = "start"
    /\ IF disk_files.st = "torn"
       THEN /\ pc' = "failed"
            /\ UNCHANGED <<crash_files, crash_dirs>>
       ELSE /\ crash_files' = IF disk_files.st = "ok" THEN disk_files.data
                                                     ELSE crash_files
            /\ IF disk_dirs.st = "torn"
               THEN /\ pc' = "failed"
                    /\ UNCHANGED crash_dirs
               ELSE /\ crash_dirs' = IF disk_dirs.st = "ok" THEN disk_dirs.data
                                                           ELSE crash_dirs
                    /\ pc' = "wait"
    /\ IF pc' = "failed" THEN Fails("crashes") ELSE UNCHANGED first_failed
    /\ UNCHANGED <<Disk, Locals, slept, polls, kills, History, covVars, hbVars,
                   now, trVars, arVars, mon>>

\* get_crashes, outer loop: hb_connected_rx.wait_for(|val| *val) returns;
\* the connect to the crash service is started.
CrWaitReady ==
    /\ pc = "wait"
    /\ WaitFor(ready)
    /\ pc' = "connecting"
    /\ UNCHANGED <<crash_files, crash_dirs, Disk, Locals, slept, polls, kills,
                   History, covVars, supVars>>

\* get_crashes, outer loop: hb_connected_rx.wait_for(|val| *val) returns
\* Err, the channel being closed; the task sleeps RETRY_CONNECT_WAIT_SECS
\* and starts over.
CrWaitClosed ==
    /\ pc = "wait"
    /\ WaitForErr(ready)
    /\ slept' = RETRY_CONNECT_WAIT_SECS
    /\ UNCHANGED <<pc, crash_files, crash_dirs, Disk, Locals, polls, kills,
                   History, covVars, supVars>>

\* get_crashes, outer loop: the crash service connects within the 2s cap.
ConnectOk ==
    /\ pc = "connecting"
    /\ pc' = "connected"
    /\ slept' = 0
    /\ gave_up' = {}
    /\ UNCHANGED <<crash_files, crash_dirs, Disk, Locals, polls, kills,
                   Past, covVars, supVars>>

\* get_crashes, outer loop: the connect fails or times out; the task sleeps
\* RETRY_CONNECT_WAIT_SECS and tries again.
ConnectFail ==
    /\ pc = "connecting"
    /\ pc' = "wait"
    /\ slept' = RETRY_CONNECT_WAIT_SECS
    /\ UNCHANGED <<crash_files, crash_dirs, Disk, Locals, polls, kills,
                   History, covVars, supVars>>

\* write_crashes, listing: ls(None) fails; write_crashes returns the error
\* and get_crashes leaves the session: it logs the error and breaks to
\* the outer loop, without a sleep.
ListRootFail ==
    /\ pc = "connected"
    /\ polls < MaxPolls
    /\ polls' = polls + 1
    /\ slept' = 0
    /\ pc' = "wait"
    /\ UNCHANGED <<crash_files, crash_dirs, Disk, Locals, kills,
                   History, covVars, supVars>>

\* write_crashes, listing: ls(None) succeeds and the listing of the known
\* directory dir fails; dir is removed from crash_dirs and write_crashes
\* returns the error; get_crashes breaks to the outer loop, without a
\* sleep.
ListDirFail(dir) ==
    /\ pc = "connected"
    /\ polls < MaxPolls
    /\ dir \in crash_dirs
    /\ polls' = polls + 1
    /\ crash_dirs' = crash_dirs \ {dir}
    /\ slept' = 0
    /\ pc' = "wait"
    /\ UNCHANGED <<crash_files, Disk, Locals, kills, History,
                   covVars, supVars>>

\* write_crashes, listing: ls(None) returns root and every known directory
\* d returns sub[d]; files and files_to_get are computed.
Listing(root, sub) ==
    /\ pc = "connected"
    /\ ls_result' = sub
    /\ files' = Candidates(root, sub)
    /\ files_to_get' = FilesToGet(Candidates(root, sub), crash_files,
                                  crash_dirs)
    /\ visited' = {}
    /\ files_give_up' = {}
    /\ cur' = NoPath
    /\ pc' = "fetch"
    /\ UNCHANGED <<crash_files, crash_dirs, Disk, slept, kills, History,
                   covVars, supVars>>

\* A pass of write_crashes whose listings succeed, counted in polls.
ListOk(root, sub) ==
    /\ polls < MaxPolls
    /\ polls' = polls + 1
    /\ Listing(root, sub)

\* write_crashes, download loop: the next file of files_to_get is taken and
\* client.pull(file) is called.
PullCall(file) ==
    /\ pc = "fetch"
    /\ file \in files_to_get \ visited
    /\ cur' = file
    /\ visited' = visited \cup {file}
    /\ pc' = "pulling"
    /\ UNCHANGED <<crash_files, crash_dirs, Disk, files, ls_result, files_to_get,
                   files_give_up, slept, polls, kills, History, covVars, supVars>>

\* pull succeeds and write_file succeeds: file is inserted into crash_files
\* and update_known_crashes is entered.
PullOkWriteOk ==
    /\ pc = "pulling"
    /\ crash_files' = crash_files \cup {cur}
    /\ downloaded' = downloaded \cup {cur}
    /\ pc' = "create_files"
    /\ UNCHANGED <<crash_dirs, Disk, Locals, slept, polls, kills, persisted,
                   prev_downloaded, prev_persisted, found_dirs, gave_up,
                   covVars, supVars>>

\* pull fails and get_file_info reports S_IFDIR: file is inserted into
\* crash_dirs.
PullFailIsDir ==
    /\ pc = "pulling"
    /\ cur \in DirPaths
    /\ crash_dirs' = crash_dirs \cup {cur}
    /\ found_dirs' = found_dirs \cup {cur}
    /\ pc' = "fetch"
    /\ cur' = NoPath
    /\ UNCHANGED <<crash_files, Disk, files, ls_result, files_to_get, visited,
                   files_give_up, slept, polls, kills, downloaded, persisted,
                   prev_downloaded, prev_persisted, gave_up, covVars,
                   supVars>>

\* pull fails with ObjectNotFound or PermDenied and get_file_info reports no
\* directory: file is inserted into files_give_up.
PullFailGiveUp ==
    /\ pc = "pulling"
    /\ files_give_up' = files_give_up \cup {cur}
    /\ gave_up' = gave_up \cup {cur}
    /\ pc' = "fetch"
    /\ cur' = NoPath
    /\ UNCHANGED <<crash_files, crash_dirs, Disk, files, ls_result,
                   files_to_get, visited, slept, polls, kills, Past, covVars,
                   supVars>>

\* Variant of PullLogged in which the path is inserted into crash_files
\* before write_file has succeeded.
PullLoggedInsert ==
    /\ pc = "pulling"
    /\ crash_files' = crash_files \cup {cur}
    /\ pc' = "fetch"
    /\ cur' = NoPath
    /\ UNCHANGED <<crash_dirs, Disk, files, ls_result, files_to_get, visited,
                   files_give_up, slept, polls, kills, History, covVars, supVars>>

\* pull succeeds and write_file fails, or pull fails with another error, or
\* pull fails and get_file_info fails: logged, next file.
PullLogged ==
    /\ pc = "pulling"
    /\ pc' = "fetch"
    /\ cur' = NoPath
    /\ UNCHANGED <<crash_files, crash_dirs, Disk, files, ls_result, files_to_get, visited,
                   files_give_up, slept, polls, kills, History, covVars, supVars>>

\* update_known_crashes: File::create(known_crashes.json) truncates the file.
CreateFilesOk ==
    /\ pc = "create_files"
    /\ disk_files' = TornFile({})
    /\ pc' = "write_files"
    /\ UNCHANGED <<crash_files, crash_dirs, disk_dirs, Locals, slept, polls,
                   kills, History, covVars, supVars>>

\* update_known_crashes: write_all and flush of known_crashes.json.
WriteFilesOk ==
    /\ pc = "write_files"
    /\ disk_files' = OkFile(KnownCrashesContent(crash_files,
                                                files \ files_give_up))
    /\ persisted' = persisted \cup {cur}
    /\ pc' = "create_dirs"
    /\ UNCHANGED <<crash_files, crash_dirs, disk_dirs, Locals, slept, polls,
                   kills, downloaded, prev_downloaded, prev_persisted,
                   found_dirs, gave_up, covVars, supVars>>

\* update_known_crashes: File::create(known_dirs.json) truncates the file.
CreateDirsOk ==
    /\ pc = "create_dirs"
    /\ disk_dirs' = TornFile({})
    /\ pc' = "write_dirs"
    /\ UNCHANGED <<crash_files, crash_dirs, disk_files, Locals, slept, polls,
                   kills, History, covVars, supVars>>

\* update_known_crashes: write_all and flush of known_dirs.json; the loop
\* goes on with the next file.
WriteDirsOk ==
    /\ pc = "write_dirs"
    /\ disk_dirs' = OkFile(crash_dirs)
    /\ pc' = "fetch"
    /\ cur' = NoPath
    /\ UNCHANGED <<crash_files, crash_dirs, disk_files, files, ls_result, files_to_get,
                   visited, files_give_up, slept, polls, kills, History,
                   covVars, supVars>>

\* update_known_crashes: a create, write or flush fails; the error is
\* returned by write_crashes and get_crashes leaves the session, without
\* a sleep.
PersistFail ==
    /\ pc \in {"create_files", "write_files", "create_dirs", "write_dirs"}
    /\ slept' = 0
    /\ pc' = "wait"
    /\ NoPass
    /\ UNCHANGED <<crash_files, crash_dirs, Disk, polls, kills,
                   History, covVars, supVars>>

\* write_crashes returns Ok: get_crashes sleeps POLL_WAIT_SECS and calls it
\* again on the same session.
PassDone ==
    /\ pc = "fetch"
    /\ visited = files_to_get
    /\ pc' = "connected"
    /\ slept' = POLL_WAIT_SECS
    /\ NoPass
    /\ UNCHANGED <<crash_files, crash_dirs, Disk, polls, kills, History,
                   covVars, supVars>>

\* The process is killed and started again: the memory is lost, the disk
\* is kept (Device::new, then get_crashes from its first line).
KillRestart ==
    /\ pc # "start"
    /\ kills < MaxKills
    /\ kills' = kills + 1
    /\ crash_files' = {}
    /\ crash_dirs' = {}
    /\ pc' = "start"
    /\ slept' = 0
    /\ NoPass
    /\ prev_downloaded' = prev_downloaded \cup downloaded
    /\ prev_persisted' = prev_persisted \cup persisted
    /\ downloaded' = {}
    /\ persisted' = {}
    /\ found_dirs' = {}
    /\ gave_up' = {}
    /\ SupReset
    /\ UNCHANGED <<Disk, polls, covVars>>

NextCrash ==
    \/ HbConnectOk
    \/ LoadKnown
    \/ CrWaitReady
    \/ ConnectOk
    \/ ConnectFail
    \/ ListRootFail
    \/ \E dir \in DirPaths : ListDirFail(dir)
    \/ \E root \in SUBSET RootPaths, sub \in [crash_dirs -> SUBSET SubNames] :
          ListOk(root, sub)
    \/ \E file \in Paths : PullCall(file)
    \/ PullOkWriteOk
    \/ PullFailIsDir
    \/ PullFailGiveUp
    \/ PullLogged
    \/ CreateFilesOk
    \/ WriteFilesOk
    \/ CreateDirsOk
    \/ WriteDirsOk
    \/ PersistFail
    \/ PassDone
    \/ KillRestart

SpecCrash == InitCov /\ [][NextCrash]_vars

\* ------------------------------------------------------------------------
\* The Crash Harvester under fair scheduling, in an environment where the
\* heartbeat connects and stays connected, the crash service connects,
\* every listing succeeds and holds LiveP, and the pull and the local
\* write of LiveP succeed. Passes are not counted. Writes of the Known-Set
\* files may fail.
\* ------------------------------------------------------------------------
\* The remote file that keeps being listed.
LiveP == <<"a.ips">>

\* A pass of write_crashes whose listings succeed and hold LiveP.
LiveListOk(root, sub) ==
    /\ LiveP \in root
    /\ polls' = polls
    /\ Listing(root, sub)

\* One step of get_crashes in this environment.
CrashLive ==
    \/ LoadKnown
    \/ CrWaitReady
    \/ ConnectOk
    \/ \E root \in SUBSET RootPaths, sub \in [crash_dirs -> SUBSET SubNames] :
          LiveListOk(root, sub)
    \/ \E file \in Paths : PullCall(file)
    \/ PullOkWriteOk
    \/ PullFailIsDir
    \/ cur # LiveP /\ PullFailGiveUp
    \/ cur # LiveP /\ PullLogged
    \/ CreateFilesOk
    \/ WriteFilesOk
    \/ CreateDirsOk
    \/ WriteDirsOk
    \/ PersistFail
    \/ PassDone

NextLive ==
    \/ HbConnectOk
    \/ CrashLive

\* tokio schedules every spawned task that can run: the heartbeat task and
\* the crash task each take a step when one stays possible.
SpecLive ==
    /\ InitCov
    /\ [][NextLive]_vars
    /\ WF_vars(HbConnectOk)
    /\ WF_vars(CrashLive)

\* ------------------------------------------------------------------------
\* Specification SpecReady: the heartbeat and the three collectors, started
\* with a Coverage Set loaded from disk that has a gap; the clock stands
\* still and the crash service lists an empty root. known_crashes.json is
\* absent, or left empty by a run that was killed while writing it.
\* ------------------------------------------------------------------------
InitReady ==
    /\ CrashTaskInit
    /\ disk_files \in {NoFile({}), TornFile({})}
    /\ disk_dirs = NoFile({})
    /\ TaskInit
    /\ now = 3 * Sub
    /\ cov_file = OkFile(Serialize(<<<<0, Sub>>, <<2 * Sub, 3 * Sub>>>>))
    /\ covered = load_from_fs(cov_file).value

NextReady ==
    \/ HbConnectOk
    \/ HbConnectErr
    \/ HbSoftTimeout
    \/ HbWindowElapsed
    \/ HbExchange
    \/ HbPoloErr
    \/ HbMarcoErr
    \/ HbSendFatal
    \/ HbSoftTimeoutSendErr
    \/ HbJoinError
    \/ MonitorReturn
    \/ LoadKnown
    \/ CrWaitReady
    \/ CrWaitClosed
    \/ ConnectOk
    \/ ConnectFail
    \/ ListRootFail
    \/ ListOk({}, << >>)
    \/ PassDone
    \/ TrWaitReady
    \/ TrWaitClosed
    \/ TrConnectFail
    \/ TrStartTraceFail
    \/ TrConnectOk
    \/ TrWriteLogCall
    \/ TrLog
    \/ TrLogErr
    \/ TrWriteLogFatal
    \/ TrWriteLogClosed
    \/ TrChanged
    \/ TrNewHeartbeat
    \/ TrMerge
    \/ TrPersistOk
    \/ TrPersistFail
    \/ ArReadGaps
    \/ ArWaitReady
    \/ ArWaitClosed
    \/ ArConnectFail
    \/ ArConnectOk
    \/ ArCreateCall
    \/ ArCreateErr
    \/ ArCreateOk
    \/ ArPersistOk
    \/ ArPersistFail
    \/ ArLoopDone

SpecReady == InitReady /\ [][NextReady]_vars

\* ------------------------------------------------------------------------
\* Specification SpecBackfill: the two writers of the Coverage Set, the
\* Trace Streamer and the Archive Backfiller, with the clock running and a
\* heartbeat that connects; the process starts with a Coverage Set loaded
\* from disk, which truncates the instants to whole seconds.
\* ------------------------------------------------------------------------
\* Coverage Sets an earlier run has written, each with the instant the
\* process starts at: one range of whole seconds, and two ranges whose
\* ends have a sub-second part.
SavedCoverages ==
    {<<<<<<0, Sub>>>>, Sub>>,
     <<<<<<0, 1>>, <<Sub, Sub + 1>>>>, Sub + 1>>}

InitBackfill ==
    /\ CrashInit
    /\ TaskInit
    /\ \E saved \in SavedCoverages :
          /\ now = saved[2]
          /\ cov_file = OkFile(Serialize(saved[1]))
    /\ covered = load_from_fs(cov_file).value

NextBackfill ==
    \/ Tick
    \/ HbConnectOk
    \/ TrWaitReady
    \/ TrConnectOk
    \/ TrWriteLogCall
    \/ TrLog
    \/ TrLogErr
    \/ TrMerge
    \/ TrPersistOk
    \/ ArReadGaps
    \/ ArWaitReady
    \/ ArConnectOk
    \/ ArCreateCall
    \/ ArCreateErr
    \/ ArCreateOk
    \/ ArPersistOk
    \/ ArLoopDone

SpecBackfill == InitBackfill /\ [][NextBackfill]_vars

\* ------------------------------------------------------------------------
\* Properties of the Crash Harvester
\* ------------------------------------------------------------------------
\* C8: a file that was successfully pulled and written is never pulled
\* again by a later poll or a later connection session: pull is never
\* called on a path this process has already downloaded.
C8_NoRepull == pc = "pulling" => cur \notin downloaded

\* A later pass lists a path downloaded by an earlier pass, leaves it out of
\* files_to_get and pulls another path.
C8_Witness ==
    /\ pc = "pulling"
    /\ \E p \in downloaded : p \in files /\ p \notin files_to_get

C10_Original == pc = "pulling" => cur \notin found_dirs

\* C10 as amended: a path found to be a directory is not pulled for as long
\* as it stays in crash_dirs.
C10_NoPullKnownDir == pc = "pulling" => cur \notin crash_dirs

\* A later pass lists a path that an earlier pass found to be a directory,
\* leaves it out of files_to_get and pulls another path.
C10_Witness ==
    /\ pc = "pulling"
    /\ \E d \in found_dirs \cap crash_dirs : d \in files /\ d \notin files_to_get

\* C11: the files and dirs sets of the Known-Set are disjoint in every
\* reachable state, in memory and in the pair of snapshots on disk
\* (known_crashes.json, known_dirs.json).
C11_Disjoint ==
    /\ crash_files \cap crash_dirs = {}
    /\ (disk_files.st = "ok" /\ disk_dirs.st = "ok")
          => disk_files.data \cap disk_dirs.data = {}

C13_NoFilteredPull == pc = "pulling" => KeepEntry(cur[Len(cur)])

\* C14: a path whose pull failed with 'not found' or 'permission denied'
\* and that is not a directory is put in a per-session give-up set: it is
\* not pulled again during the same connected crash-service session.
C14_GiveUp == pc = "pulling" => cur \notin gave_up

\* C15 as stated: each time the Known-Set is persisted, the files set
\* written to known_crashes.json equals the candidates minus give_up.
C15_Original ==
    [][(pc = "write_files" /\ pc' = "create_dirs")
          => disk_files' = OkFile(files \ files_give_up)]_vars

\* C15 as amended: each time the Known-Set is persisted, the files set
\* written to known_crashes.json equals the in-memory crash_files, and the
\* dirs set written to known_dirs.json equals the in-memory crash_dirs.
C15_PersistsMemory ==
    [][/\ (pc = "write_files" /\ pc' = "create_dirs")
             => disk_files' = OkFile(crash_files)
       /\ (pc = "write_dirs" /\ pc' = "fetch")
             => disk_dirs' = OkFile(crash_dirs)]_vars

\* Both files have been written in a pass that gave up a path and whose
\* candidates minus give_up differ from crash_files.
C15_Witness ==
    /\ pc = "fetch"
    /\ files_give_up # {}
    /\ disk_files = OkFile(crash_files)
    /\ disk_dirs = OkFile(crash_dirs)
    /\ crash_dirs # {}
    /\ crash_files # files \ files_give_up

\* ------------------------------------------------------------------------
\* Properties of the Trace Streamer and of the Readiness Signal
\* ------------------------------------------------------------------------
\* The trace session that was started last has not been merged.
Unmerged ==
    \/ tr_pc \in {"loop", "changed", "wait_true", "merge"}
    \/ tr_pc = "failed" /\ tr_end = "fatal"

C18_NoRestartWithoutDrop == tr_end = "new_heartbeat" => drops >= 1

\* A collector makes its service connect (it succeeds, fails or times out).
ConnectStep ==
    \/ pc = "connecting" /\ pc' \in {"connected", "wait"}
    \/ tr_pc = "connecting" /\ tr_pc' \in {"loop", "wait"}
    \/ ar_pc = "connecting" /\ ar_pc' \in {"gaps", "top"}

\* C16 as stated: no collector makes a service connect while the current
\* value of readiness is false, including when readiness drops between the
\* collector's readiness wait and its connect.
C16_Original == [][ConnectStep => ready]_vars

\* C16 as amended: a collector goes to its service connect only from a
\* readiness wait that returned with the value true, and makes no connect
\* otherwise.
C16_ConnectAfterWait ==
    [][/\ (pc' = "connecting" /\ pc # "connecting") => pc = "wait" /\ ready
       /\ (tr_pc' = "connecting" /\ tr_pc # "connecting")
             => tr_pc = "wait" /\ ready
       /\ (ar_pc' = "connecting" /\ ar_pc # "connecting")
             => ar_pc = "wait" /\ ready
       /\ (pc' = "connected" /\ pc # "connected")
             => pc \in {"connecting", "fetch"}
       /\ (tr_pc' = "loop" /\ tr_pc # "loop")
             => tr_pc \in {"connecting", "changed", "wait_true"}
       /\ (ar_pc' = "gaps" /\ ar_pc # "gaps")
             => ar_pc \in {"connecting", "archiving", "persist"}]_vars

\* The three collectors have left their readiness wait and readiness has
\* dropped before their connects are made.
C16_Witness ==
    /\ ~ready
    /\ pc = "connecting"
    /\ tr_pc = "connecting"
    /\ ar_pc = "connecting"

\* A collector that holds a session makes a network operation on it: the
\* Crash Harvester lists the root, the Trace Streamer reads a record, the
\* Archive Backfiller requests an archive.
SessionOp ==
    \/ pc = "connected" /\ polls' = polls + 1
    \/ tr_pc \in {"changed", "wait_true"} /\ tr_pc' = "loop"
    \/ ar_pc = "gaps" /\ ar_pc' = "archiving"

\* C19 as stated: after readiness becomes false, a collector that holds a
\* session performs no further network operation on it until readiness is
\* true again.
C19_Original == [][SessionOp => ready]_vars

\* C19 as amended: no collector leaves its session because readiness is
\* false. The Trace Streamer ends a session through the restart composite
\* only while readiness is true; the Archive Backfiller returns to its
\* readiness wait only from the top of its loop; the Crash Harvester
\* returns to its readiness wait only after a failed connect, a failed
\* listing or a failed persist.
C19_NoDisconnectOnFall ==
    [][/\ (tr_pc' = "merge" /\ tr_pc # "merge" /\ tr_end' = "new_heartbeat")
             => tr_pc = "wait_true" /\ ready
       /\ (ar_pc' = "wait" /\ ar_pc # "wait") => ar_pc = "top"
       /\ (pc' = "wait" /\ pc # "wait")
             => pc \in {"start", "connecting", "connected", "create_files",
                        "write_files", "create_dirs", "write_dirs"}]_vars

\* Readiness dropped once during the trace session and is true again: the
\* restart composite has ended the session, while the Crash Harvester and
\* the Archive Backfiller still hold theirs.
C19_Witness ==
    /\ ready
    /\ tr_pc = "merge"
    /\ tr_end = "new_heartbeat"
    /\ drops = 1
    /\ pc = "fetch"
    /\ ar_pc = "archiving"

\* C20: cold start with no heartbeat: once the 420 s optimistic window has
\* elapsed with the heartbeat connect still pending, readiness is false.
C20_WindowEndDrops == hb_event = "window_elapsed" => ~ready

\* ------------------------------------------------------------------------
\* Properties of the Heartbeat Maintainer and of monitor
\* ------------------------------------------------------------------------
\* C21: once the soft timeout has published true, no false is published
\* before the 420 s window has elapsed, even if the pending
\* connect_heartbeat returns (Ok or Err) during the window: every step
\* taken inside the window leaves readiness true.
C21_WindowHolds == [][hb_pc = "optimistic" => ready']_vars

\* C22: in a connected heartbeat session an error of get_marco or of
\* send_polo publishes false and leaves the exchange loop.
C22_ErrorLeavesLoop ==
    [][(hb_pc = "connected" /\ hb_event' \in {"marco_err", "polo_err"})
          => (~ready' /\ hb_pc' # "connected")]_vars

\* C23: a failure to publish on the channel (no live receiver) is fatal in
\* every branch of maintain_heartbeat, the soft-timeout branch included:
\* whenever a publish attempt fails, the task ends.
C23_SendFailureFatal ==
    hb_event \in {"send_fatal", "soft_timeout_send_err"} => hb_pc = "failed"

\* C24: when one of the four tasks ends with an error or panics, monitor
\* returns that first error: whatever monitor has returned is the error of
\* the task that failed first.
C24_ReturnsFirstError == mon # "running" => mon = first_failed

\* C25: once monitor has returned because a task failed, the other tasks
\* are cancelled: no task makes a service connect or a network operation
\* on a session, and neither the Coverage Set nor its file changes.
C25_Cancelled ==
    [][mon # "running"
          => /\ ~ConnectStep
             /\ ~SessionOp
             /\ UNCHANGED <<covered, cov_file>>]_vars

\* C26: a write_to_fs error of the Coverage Set is absorbed by the Trace
\* Streamer and by the Archive Backfiller: the task keeps running after
\* its persist step.
C26_PersistAbsorbed ==
    [][/\ tr_pc = "persist" => tr_pc' # "failed"
       /\ ar_pc = "persist" => ar_pc' # "failed"]_vars

\* C27: a collector that is at its readiness wait when the channel is
\* closed terminates: the step it takes from the wait ends its task.
C27_ClosedTerminates ==
    [][Closed
          => /\ (pc = "wait" /\ <<pc, slept>>' # <<pc, slept>>)
                   => pc' = "failed"
             /\ (tr_pc = "wait" /\ <<tr_pc, tr_slept>>' # <<tr_pc, tr_slept>>)
                   => tr_pc' = "failed"
             /\ (ar_pc = "wait" /\ <<ar_pc, ar_slept>>' # <<ar_pc, ar_slept>>)
                   => ar_pc' = "failed"]_vars

\* ------------------------------------------------------------------------
\* Properties of the two writers of the Coverage Set
\* ------------------------------------------------------------------------
\* C28: the in-memory Coverage Set does not depend on the order in which
\* the Trace Streamer and the Archive Backfiller acquire the write lock:
\* whenever a merge of each is pending, both orders give the same set.
C28_OrderIndependent ==
    (tr_pc = "merge" /\ ar_pc = "archiving")
        => LET t == <<interval_start, IntervalEnd(interval_end, now)>>
               g == Head(ar_gaps)
           IN  add_range(add_range(covered, t), g)
                   = add_range(add_range(covered, g), t)

\* Both merges are pending, the trace interval touches the end of a stored
\* range, and the gap lies between two stored ranges.
C28_Witness ==
    /\ tr_pc = "merge"
    /\ ar_pc = "archiving"
    /\ interval_start < interval_end
    /\ \E x \in Elems(covered) : x[2] = interval_start /\ x[1] = Head(ar_gaps)[2]
    /\ Len(covered) >= 2

\* C29: the Archive Backfiller takes the gaps of its snapshot in order; for
\* each gap it requests an archive whose start is the epoch seconds of the
\* start of the gap, and on success it merges the whole gap into the
\* Coverage Set, which gains exactly the instants of the gap. With the
\* coverage {[1 s, 2 s), [3 s, 4 s)} the request has start 2 and the
\* coverage becomes {[1 s, 4 s)}.
C29_GapRequest ==
    [][/\ LET cov == <<<<Sub, 2 * Sub>>, <<3 * Sub, 4 * Sub>>>>
              gaps == missing_ranges(cov)
          IN  /\ gaps = <<<<2 * Sub, 3 * Sub>>>>
              /\ ArchiveStart(Head(gaps)) = 2
              /\ add_range(cov, Head(gaps)) = <<<<Sub, 4 * Sub>>>>
       /\ (ar_pc = "top" /\ ar_pc' = "wait")
             => ar_gaps' = missing_ranges(covered)
       /\ (ar_pc = "gaps" /\ ar_pc' = "archiving")
             => /\ ar_req' * Sub <= Head(ar_gaps)[1]
                /\ Head(ar_gaps)[1] < (ar_req' + 1) * Sub
                /\ ar_gaps' = ar_gaps
       /\ (ar_pc = "archiving" /\ ar_pc' = "persist")
             => /\ Cells(covered') = Cells(covered) \cup CellsOf(Head(ar_gaps))
                /\ ar_gaps' = Tail(ar_gaps)]_vars

\* The gap between a first range [0, 1 s) and a later range has been
\* requested with start 1 and merged: one range from 0 is left.
C29_Witness ==
    /\ ar_pc = "persist"
    /\ ar_req = 1
    /\ Len(covered) = 1
    /\ covered[1][1] = 0
    /\ covered[1][2] >= Sub + 2

\* C30: loading the Coverage Set from a missing file or from an existing
\* but empty file yields the empty Coverage Set without an error, and the
\* device is monitored.
C30_EmptyFileLoads ==
    cov_file.st \in {"absent", "torn"}
        => /\ load_from_fs(cov_file).ok
           /\ load_from_fs(cov_file).value = EmptyCoverage
           /\ mon # "skipped"

\* ------------------------------------------------------------------------
\* Properties of the error paths
\* ------------------------------------------------------------------------
\* C31: when the listing of a known directory fails during a pass, the
\* directory is removed from crash_dirs and the pass continues: the files
\* to fetch are computed and pulled in the same pass.
C31_PassContinues ==
    [][(pc = "connected" /\ kills' = kills /\ crash_dirs' # crash_dirs)
          => (pc' = "fetch" /\ crash_dirs' \subseteq crash_dirs)]_vars

\* C32: when write_crashes returns an error and the Crash Harvester
\* leaves its connected session, it sleeps RETRY_CONNECT_WAIT_SECS before
\* the next connect attempt.
C32_SleepAfterSessionError ==
    [][(pc \in {"connected", "create_files", "write_files", "create_dirs",
                "write_dirs"} /\ pc' = "wait")
          => slept' = RETRY_CONNECT_WAIT_SECS]_vars

\* C33: after a transport error of the Trace Streamer (connect failure or
\* timeout, start_trace failure, stream error) the task sleeps
\* RETRY_CONNECT_WAIT_SECS before it returns to the readiness wait that
\* precedes the next connect attempt.
C33_DelayBeforeRetry ==
    [][(tr_pc \in {"connecting", "persist"} /\ tr_pc' = "wait")
          => tr_slept' = TRACE_RETRY_CONNECT_WAIT_SECS]_vars

\* C34: a path is in crash_files, and in a completely written
\* known_crashes.json, only after write_file has written and flushed its
\* artifact (in this run or an earlier one); when the pull or the local
\* write fails, the path is not added to crash_files, the disk is not
\* touched and the download loop goes on with the next artifact.
C34_InsertAfterWrite ==
    [][/\ crash_files' \subseteq downloaded' \cup prev_downloaded'
       /\ disk_files'.st = "ok"
             => disk_files'.data \subseteq downloaded' \cup prev_downloaded'
       /\ (pc = "pulling" /\ pc' # "create_files" /\ kills' = kills)
             => /\ pc' = "fetch"
                /\ cur \notin crash_files'
                /\ crash_files' = crash_files
                /\ disk_files' = disk_files]_vars

\* In one pass the pull or the write of one path has failed without
\* making it known, and another path has been written, inserted and
\* persisted.
C34_Witness ==
    /\ pc = "fetch"
    /\ \E p \in visited : p \notin crash_files \cup crash_dirs \cup files_give_up
    /\ \E q \in visited \cap downloaded :
          q \in crash_files /\ disk_files.st = "ok" /\ q \in disk_files.data

\* C35: a failed archive request leaves the Coverage Set unchanged in
\* memory and on disk, and the Archive Backfiller sleeps 60 s and goes on
\* with the next gap of its snapshot.
C35_FailedRequest ==
    [][(ar_pc = "archiving" /\ ar_pc' \notin {"archiving", "persist"})
          => /\ covered' = covered
             /\ cov_file' = cov_file
             /\ ar_slept' = ARCHIVE_WAIT_SECS
             /\ ar_pc' = "gaps"
             /\ ar_gaps' = Tail(ar_gaps)]_vars

\* A request has failed in a pass over a snapshot of two gaps: the first
\* gap is still missing, the file holds the Coverage Set, and the next
\* gap of the snapshot is up.
C35_Witness ==
    /\ ar_pc = "gaps"
    /\ ar_slept = ARCHIVE_WAIT_SECS
    /\ ar_gaps # << >>
    /\ Len(missing_ranges(covered)) >= 2
    /\ Head(ar_gaps) = missing_ranges(covered)[2]
    /\ cov_file = OkFile(Serialize(covered))

\* C36: when one of the Trace Streamer and the Archive Backfiller
\* completes the write of its merge-and-persist step and the other has no
\* write pending, the persisted coverage file equals the in-memory
\* Coverage Set: a clone taken earlier by one task does not overwrite a
\* newer one written by the other.
C36_FileEqualsMemory ==
    [][(/\ \/ tr_pc = "persist" /\ tr_pc' # "persist"
           \/ ar_pc = "persist" /\ ar_pc' # "persist"
        /\ tr_pc' \notin {"persist", "failed"}
        /\ ar_pc' \notin {"persist", "failed"})
          => cov_file' = OkFile(Serialize(covered'))]_vars

\* C37: the Coverage Set that load_from_fs restores from a file written by
\* write_to_fs is normalized (pairwise non-overlapping, non-touching,
\* ordered by start) and has as many intervals as the saved set.
C37_LoadNormalized ==
    cov_file.st = "ok"
        => /\ Normalized(load_from_fs(cov_file).value)
           /\ Len(load_from_fs(cov_file).value) = Len(cov_file.data)

\* The Trace Streamer is between its outer readiness wait and the end of
\* the inner loop of a trace session.
InSession == tr_pc \in {"connecting", "loop", "changed", "wait_true"}

\* C38: no readiness edge is missed by the Trace Streamer: a change of
\* readiness between the outer readiness wait and the end of the session
\* leaves an unseen version on the streamer's receiver, and on the clone of
\* a write_log call in progress; the unseen version stays on the receiver
\* for as long as the session lasts (whether a record is written or not);
\* every write_log call starts its clone with it; and a restart composite
\* that has seen it and finds readiness true ends the session.
C38_EdgeNotMissed ==
    [][/\ (InSession /\ ready' # ready)
             => /\ rx_unseen'
                /\ tr_pc = "changed" => hb_rx_unseen'
       /\ (InSession /\ InSession' /\ rx_unseen) => rx_unseen'
       /\ (tr_pc = "loop" /\ tr_pc' = "changed") => hb_rx_unseen' = rx_unseen
       /\ (tr_pc = "changed" /\ hb_rx_unseen /\ tr_pc' = "changed")
             => hb_rx_unseen'
       /\ (tr_pc = "wait_true" /\ tr_pc' = "merge" /\ tr_end' # "error")
             => /\ ready
                /\ tr_end' = "new_heartbeat"
                /\ tr_slept' = TRACE_RETRY_CONNECT_WAIT_SECS]_vars

\* Readiness dropped during a session; a write_log call made after the
\* drop has seen the change and readiness true, and has ended the session.
C38_Witness ==
    /\ tr_pc = "merge"
    /\ tr_end = "new_heartbeat"
    /\ drops >= 1
    /\ last_call > drop_time
    /\ ready

\* The set a Known-Set file holds for load: an absent file stands for the
\* empty set.
KnownOnDisk(file) == IF file.st = "ok" THEN file.data ELSE {}

\* C39: at the end of every write_crashes call that returns Ok or fails on
\* a listing, in a run in which no write of known_crashes.json or
\* known_dirs.json has failed, the two files equal the in-memory
\* crash_files and crash_dirs: a directory discovered in the pass, or
\* removed after a failed listing, has been persisted.
C39_DiskEqualsMemory ==
    [][(/\ \/ pc = "fetch" /\ pc' = "connected"
           \/ pc = "connected" /\ pc' = "wait"
        /\ downloaded \subseteq persisted
        /\ disk_files.st # "torn"
        /\ disk_dirs.st # "torn")
          => /\ KnownOnDisk(disk_files') = crash_files'
             /\ KnownOnDisk(disk_dirs') = crash_dirs']_vars

\* C40: under fair scheduling, with readiness staying true, connects and
\* listings succeeding, and LiveP listed by every pass with its pull and
\* local write succeeding, LiveP is eventually in crash_files and in the
\* persisted known_crashes.json.
C40_EventuallyKnown ==
    <>(/\ LiveP \in crash_files
       /\ disk_files.st = "ok"
       /\ LiveP \in disk_files.data)

====
